---- MODULE Spec2Model ----
(***************************************************************************)
(* BikaMusic (src/main.py): the per-group play queue, the now-playing      *)
(* slot and the voice-call session driven by the /play, /skip and /stop    *)
(* handlers.                                                               *)
(*                                                                         *)
(* Every handler is a coroutine on one asyncio event loop: the code        *)
(* between two suspension points runs atomically, and handlers of          *)
(* different webhook requests interleave at the suspension points.  One    *)
(* action of the model is one such atomic block.  A suspension point that  *)
(* neither reads nor writes shared state (ensure_peer, the replies to the  *)
(* user) is merged into the block before it.  cleanup_file is declared     *)
(* async but contains no await, so it never suspends.                      *)
(***************************************************************************)
EXTENDS Integers, Sequences, FiniteSets, TLC

\* ---------------------------------------------------------------- bounds
\* Longest queue a group is let to build (guards the /play entry).
MaxQueue == 3

\* Group chats, one private chat, audio files of /tmp/tg_music, handler tasks
\* (a request runs in the first task that is free).
Groups == {"g1", "g2"}
PrivateChat == "u1"
Chats == Groups \cup {PrivateChat}
Paths == {"a.mp3", "b.mp3"}
Hids == {1, 2}

None == "None"

VARIABLES
    mem_queue,      \* chat_id -> [file_path, ...]
    mem_now,        \* chat_id -> current file path, or None
    ASSISTANT_ID,   \* id of the assistant account, None when get_me failed
    disk,           \* the mp3 files of /tmp/tg_music, newest mtime first
    callState,      \* group -> "Idle" | "Streaming": what PyTgCalls holds
    callSource,     \* group -> the file the call streams, None when Idle or
                    \* when the stream has ended
    hs,             \* handler task -> its locals and position
    lifecycle,      \* "up" | "swept" | "down"
    stopSeen        \* history: the tasks whose /play was resolving when a
                    \* /stop of its group ran

vars == <<mem_queue, mem_now, ASSISTANT_ID, disk, callState, callSource, hs, lifecycle,
          stopSeen>>

\* ---------------------------------------------------------------- helpers
\* cleanup_file(p): os.remove, a missing file is ignored.
Remove(s, p) == SelectSeq(s, LAMBDA x : x # p)

\* The entries of a queue.
Elems(q) == {q[i] : i \in 1..Len(q)}

\* cleanup_file of every entry of q: os.remove, a missing file is ignored.
RemoveAll(s, q) == SelectSeq(s, LAMBDA x : x \notin Elems(q))

\* What an awaited call of a collaborator does: it returns or it raises.
Results == {"ok", "raises"}

\* m.chat.type in ("group", "supergroup")
IsGroupChat(c) == c \in Groups

\* A handler task that is not running: its last request has returned.
\* lookup: what get_chat_member did when it was called; gate: what
\* assistant_in_group returned; resolves: calls of ytdlp_to_mp3;
\* pos: len(mem_queue[chat]) as line 334 read it; soc: calls of
\* ensure_join_and_play; ops: the calls made on the call session.
NoHandler ==
    [kind |-> "none", pc |-> "done", chat |-> PrivateChat, file_path |-> None,
     lookup |-> "none", gate |-> FALSE, resolves |-> 0, pos |-> 0, soc |-> 0, ops |-> <<>>,
     outcome |-> "none"]

NewHandler(k, c) == [NoHandler EXCEPT !.kind = k, !.chat = c, !.outcome = "pending"]

\* One call-session call as the handler issued it.
Op(name, f, ok) == [op |-> name, file |-> f, ok |-> ok]

Free(h) ==
    /\ lifecycle = "up"
    /\ hs[h].pc = "done"
    /\ \A k \in Hids : k < h => hs[k].pc # "done"

\* /play requests of chat c that have passed the gate and not yet enqueued.
Resolving(c) == {h \in Hids : hs[h].chat = c /\ hs[h].pc \in {"download", "listing", "resolved"}}

Init ==
    /\ mem_queue = [g \in Groups |-> <<>>]
    /\ mem_now = [g \in Groups |-> None]
    /\ ASSISTANT_ID \in {None, "id"}
    /\ disk = <<>>
    /\ callState = [g \in Groups |-> "Idle"]
    /\ callSource = [g \in Groups |-> None]
    /\ hs = [h \in Hids |-> NoHandler]
    /\ lifecycle = "up"
    /\ stopSeen = {}

\* ---------------------------------------------------------------- cmd_play
\* assistant_in_group that takes a lookup that raised for a membership.
assistant_in_group_fail_open(lookup) ==
    IF ASSISTANT_ID = None THEN FALSE
    ELSE TRUE

\* assistant_in_group: False when ASSISTANT_ID is unset or the lookup raises.
assistant_in_group(lookup) ==
    IF ASSISTANT_ID = None THEN FALSE
    ELSE IF lookup = "member" THEN TRUE
    ELSE FALSE

\* PlayStart with the download started before the presence check is looked at.
PlayStartResolveFirst(h, c, hasArg, lookup, reply) ==
    /\ Free(h)
    /\ IsGroupChat(c) => Len(mem_queue[c]) + Cardinality(Resolving(c)) < MaxQueue
    /\ LET n == NewHandler("play", c)
           r == [n EXCEPT !.lookup = IF ASSISTANT_ID = None THEN "none" ELSE lookup]
       IN
       hs' = [hs EXCEPT ![h] =
                IF ~IsGroupChat(c) THEN [n EXCEPT !.outcome = "NotAGroupContext"]
                ELSE IF ~hasArg THEN [n EXCEPT !.outcome = "Usage"]
                ELSE [r EXCEPT !.gate = assistant_in_group(lookup), !.pc = "download"]]
    /\ stopSeen' = stopSeen \ {h}
    /\ UNCHANGED <<mem_queue, mem_now, ASSISTANT_ID, disk, callState, callSource, lifecycle>>

\* Lines 308-325: the context checks, the presence gate and the "searching"
\* reply.  lookup is what get_chat_member does, reply what m.reply does.
PlayStart(h, c, hasArg, lookup, reply) ==
    /\ Free(h)
    /\ IsGroupChat(c) => Len(mem_queue[c]) + Cardinality(Resolving(c)) < MaxQueue
    /\ LET n == NewHandler("play", c)
           r == [n EXCEPT !.lookup = IF ASSISTANT_ID = None THEN "none" ELSE lookup]
       IN
       hs' = [hs EXCEPT ![h] =
                IF ~IsGroupChat(c) THEN [n EXCEPT !.outcome = "NotAGroupContext"]
                ELSE IF ~hasArg THEN [n EXCEPT !.outcome = "Usage"]
                ELSE IF ~assistant_in_group(lookup)
                     THEN [r EXCEPT !.outcome = "AssistantNotPresent"]
                ELSE IF reply = "raises"
                     THEN [r EXCEPT !.gate = TRUE, !.outcome = "OperationFailed"]
                ELSE [r EXCEPT !.gate = TRUE, !.pc = "download"]]
    /\ stopSeen' = stopSeen \ {h}
    /\ UNCHANGED <<mem_queue, mem_now, ASSISTANT_ID, disk, callState, callSource, lifecycle>>

\* Download whose failure is reported but does not end the request.
DownloadErrorFallsThrough(h, result, p) ==
    /\ hs[h].pc = "download"
    /\ hs' = [hs EXCEPT ![h].resolves = @ + 1, ![h].pc = "listing",
                        ![h].outcome = IF result = "error" THEN "ResolutionFailed" ELSE @]
    /\ disk' = IF result = "written" THEN <<p>> \o Remove(disk, p) ELSE disk
    /\ UNCHANGED <<mem_queue, mem_now, ASSISTANT_ID, callState, callSource, lifecycle, stopSeen>>

\* ytdlp_to_mp3, lines 149-166, in its worker thread: yt-dlp exits non-zero
\* (check_call raises), or exits 0 having written track p, or exits 0 having
\* written nothing.
Download(h, result, p) ==
    /\ hs[h].pc = "download"
    /\ \/ /\ result = "error"
          /\ hs' = [hs EXCEPT ![h].resolves = @ + 1, ![h].pc = "done",
                              ![h].outcome = "ResolutionFailed"]
          /\ disk' = disk
       \/ /\ result = "written"
          /\ hs' = [hs EXCEPT ![h].resolves = @ + 1, ![h].pc = "listing"]
          /\ disk' = <<p>> \o Remove(disk, p)
       \/ /\ result = "nothing"
          /\ hs' = [hs EXCEPT ![h].resolves = @ + 1, ![h].pc = "listing"]
          /\ disk' = disk
    /\ UNCHANGED <<mem_queue, mem_now, ASSISTANT_ID, callState, callSource, lifecycle, stopSeen>>

\* ytdlp_to_mp3, lines 168-172: the newest mp3 of the directory.  The
\* listing runs in the worker thread while handlers delete files on the event
\* loop: getmtime raises when a listed file is gone by the time it is read.
Listing(h, result) ==
    /\ hs[h].pc = "listing"
    /\ result = "raises" => disk # <<>>
    /\ hs' = [hs EXCEPT ![h] =
                IF disk = <<>>
                THEN [@ EXCEPT !.pc = "done", !.outcome = "NotFound"]
                ELSE IF result = "raises"
                THEN [@ EXCEPT !.pc = "done", !.outcome = "ResolutionFailed"]
                ELSE [@ EXCEPT !.pc = "resolved", !.file_path = Head(disk)]]
    /\ UNCHANGED <<mem_queue, mem_now, ASSISTANT_ID, disk, callState, callSource, lifecycle, stopSeen>>

\* Enqueue with the test of line 334 dropped: play_next after every append.
EnqueueAlwaysPlay(h) ==
    /\ hs[h].pc = "resolved"
    /\ LET c == hs[h].chat
           q == Append(mem_queue[c], hs[h].file_path)
       IN /\ mem_queue' = [mem_queue EXCEPT ![c] = q]
          /\ mem_now' = [mem_now EXCEPT ![c] = q[1]]
          /\ hs' = [hs EXCEPT ![h].pos = Len(q), ![h].file_path = q[1],
                              ![h].soc = @ + 1, ![h].pc = "change"]
    /\ UNCHANGED <<ASSISTANT_ID, disk, callState, callSource, lifecycle, stopSeen>>

\* Enqueue that also starts playback when the queue was not empty but no
\* call is joined.
EnqueuePlaysWhenIdle(h) ==
    /\ hs[h].pc = "resolved"
    /\ LET c == hs[h].chat
           q == Append(mem_queue[c], hs[h].file_path)
       IN /\ mem_queue' = [mem_queue EXCEPT ![c] = q]
          /\ IF Len(q) = 1 \/ callState[c] = "Idle"
             THEN /\ mem_now' = [mem_now EXCEPT ![c] = q[1]]
                  /\ hs' = [hs EXCEPT ![h].pos = Len(q), ![h].file_path = q[1],
                                      ![h].soc = @ + 1, ![h].pc = "change"]
             ELSE /\ mem_now' = mem_now
                  /\ hs' = [hs EXCEPT ![h].pos = Len(q), ![h].pc = "done",
                                      ![h].outcome = "Queued"]
    /\ UNCHANGED <<ASSISTANT_ID, disk, callState, callSource, lifecycle, stopSeen>>

\* Lines 332-334 and 348, and play_next up to its first suspension.
Enqueue(h) ==
    /\ hs[h].pc = "resolved"
    /\ LET c == hs[h].chat
           q == Append(mem_queue[c], hs[h].file_path)
       IN /\ mem_queue' = [mem_queue EXCEPT ![c] = q]
          /\ IF Len(q) = 1
             THEN /\ mem_now' = [mem_now EXCEPT ![c] = q[1]]
                  /\ hs' = [hs EXCEPT ![h].pos = Len(q), ![h].file_path = q[1],
                                      ![h].soc = @ + 1, ![h].pc = "change"]
             ELSE /\ mem_now' = mem_now
                  /\ hs' = [hs EXCEPT ![h].pos = Len(q), ![h].pc = "done",
                                      ![h].outcome = "Queued"]
    /\ UNCHANGED <<ASSISTANT_ID, disk, callState, callSource, lifecycle, stopSeen>>

\* ---------------------------------------------------------------- call session
\* What the handler reports once its ensure_join_and_play has returned or raised.
Played(kind, ok) ==
    IF kind = "play" THEN (IF ok THEN "Playing" ELSE "CallJoinFailed")
    ELSE (IF ok THEN "Skipped" ELSE "NextPlayFailed")

\* ChangeStream whose failure ends the request: no join_group_call follows.
ChangeStreamNoFallback(h, result) ==
    /\ hs[h].pc = "change"
    /\ LET c == hs[h].chat
           f == hs[h].file_path
       IN \/ /\ result = "ok"
             /\ callState[c] = "Streaming"
             /\ callSource' = [callSource EXCEPT ![c] = f]
             /\ hs' = [hs EXCEPT ![h].ops = Append(@, Op("change", f, TRUE)),
                                 ![h].pc = "done",
                                 ![h].outcome = Played(hs[h].kind, TRUE)]
          \/ /\ result = "raises"
             /\ callSource' = callSource
             /\ hs' = [hs EXCEPT ![h].ops = Append(@, Op("change", f, FALSE)),
                                 ![h].pc = "done",
                                 ![h].outcome = Played(hs[h].kind, FALSE)]
    /\ UNCHANGED <<mem_queue, mem_now, ASSISTANT_ID, disk, callState, lifecycle, stopSeen>>

\* ensure_join_and_play, lines 218-221: calls.change_stream.  PyTgCalls changes
\* the source of a call it is in, and raises when it is in no call of the
\* group; the call may also fail while joined.
ChangeStream(h, result) ==
    /\ hs[h].pc = "change"
    /\ LET c == hs[h].chat
           f == hs[h].file_path
       IN \/ /\ result = "ok"
             /\ callState[c] = "Streaming"
             /\ callSource' = [callSource EXCEPT ![c] = f]
             /\ hs' = [hs EXCEPT ![h].ops = Append(@, Op("change", f, TRUE)),
                                 ![h].pc = "done",
                                 ![h].outcome = Played(hs[h].kind, TRUE)]
          \/ /\ result = "raises"
             /\ callSource' = callSource
             /\ hs' = [hs EXCEPT ![h].ops = Append(@, Op("change", f, FALSE)),
                                 ![h].pc = "join"]
    /\ UNCHANGED <<mem_queue, mem_now, ASSISTANT_ID, disk, callState, lifecycle, stopSeen>>

\* JoinGroupCall that undoes the promotion when the join raises: the entry is
\* dropped from the queue and now-playing is unset.
JoinGroupCallRollsBack(h, result) ==
    /\ hs[h].pc = "join"
    /\ LET c == hs[h].chat
           f == hs[h].file_path
       IN \/ /\ result = "ok"
             /\ callState[c] = "Idle"
             /\ callState' = [callState EXCEPT ![c] = "Streaming"]
             /\ callSource' = [callSource EXCEPT ![c] = f]
             /\ hs' = [hs EXCEPT ![h].ops = Append(@, Op("join", f, TRUE)),
                                 ![h].pc = "done",
                                 ![h].outcome = Played(hs[h].kind, TRUE)]
             /\ UNCHANGED <<mem_queue, mem_now>>
          \/ /\ result = "raises"
             /\ UNCHANGED <<callState, callSource>>
             /\ mem_queue' = [mem_queue EXCEPT ![c] = Remove(@, f)]
             /\ mem_now' = [mem_now EXCEPT ![c] = None]
             /\ hs' = [hs EXCEPT ![h].ops = Append(@, Op("join", f, FALSE)),
                                 ![h].pc = "done",
                                 ![h].outcome = Played(hs[h].kind, FALSE)]
    /\ UNCHANGED <<ASSISTANT_ID, disk, lifecycle, stopSeen>>

\* ensure_join_and_play, lines 221-223: calls.join_group_call after the
\* change failed.  PyTgCalls joins when it is in no call of the group (this
\* may fail: no voice chat open, no permission) and raises when already in it.
JoinGroupCall(h, result) ==
    /\ hs[h].pc = "join"
    /\ LET c == hs[h].chat
           f == hs[h].file_path
       IN \/ /\ result = "ok"
             /\ callState[c] = "Idle"
             /\ callState' = [callState EXCEPT ![c] = "Streaming"]
             /\ callSource' = [callSource EXCEPT ![c] = f]
             /\ hs' = [hs EXCEPT ![h].ops = Append(@, Op("join", f, TRUE)),
                                 ![h].pc = "done",
                                 ![h].outcome = Played(hs[h].kind, TRUE)]
          \/ /\ result = "raises"
             /\ UNCHANGED <<callState, callSource>>
             /\ hs' = [hs EXCEPT ![h].ops = Append(@, Op("join", f, FALSE)),
                                 ![h].pc = "done",
                                 ![h].outcome = Played(hs[h].kind, FALSE)]
    /\ UNCHANGED <<mem_queue, mem_now, ASSISTANT_ID, disk, lifecycle, stopSeen>>

\* calls.leave_group_call inside try/except (lines 233-236, 365-369 and
\* 390-395): PyTgCalls leaves the call it is in, raises when it is in none,
\* and may fail while joined; the handler swallows the exception.
LeaveGroupCall(h, result) ==
    /\ hs[h].pc = "leave"
    /\ LET c == hs[h].chat
       IN \/ /\ result = "ok"
             /\ callState[c] = "Streaming"
             /\ callState' = [callState EXCEPT ![c] = "Idle"]
             /\ callSource' = [callSource EXCEPT ![c] = None]
             /\ hs' = [hs EXCEPT ![h].ops = Append(@, Op("leave", None, TRUE)),
                                 ![h].pc = "done",
                                 ![h].outcome = IF hs[h].kind = "skip"
                                                THEN "StoppedQueueEmpty"
                                                ELSE "StoppedCleared"]
          \/ /\ result = "raises"
             /\ UNCHANGED <<callState, callSource>>
             /\ hs' = [hs EXCEPT ![h].ops = Append(@, Op("leave", None, FALSE)),
                                 ![h].pc = "done",
                                 ![h].outcome = IF hs[h].kind = "skip"
                                                THEN "StoppedQueueEmpty"
                                                ELSE "StoppedCleared"]
    /\ UNCHANGED <<mem_queue, mem_now, ASSISTANT_ID, disk, lifecycle, stopSeen>>

\* The stream of the file the call plays reaches its end.  PyTgCalls stays in
\* the call with nothing to play; main.py registers no stream-end handler on
\* calls, so nothing else happens.
StreamEnd(g) ==
    /\ callState[g] = "Streaming"
    /\ callSource[g] # None
    /\ callSource' = [callSource EXCEPT ![g] = None]
    /\ UNCHANGED <<mem_queue, mem_now, ASSISTANT_ID, disk, callState, hs, lifecycle, stopSeen>>

\* ---------------------------------------------------------------- cmd_skip
\* SkipNothing that leaves the call of a group with nothing queued.
SkipNothingLeaves(h, r) ==
    /\ hs' = [hs EXCEPT ![h] = [r EXCEPT !.pc = "leave"]]
    /\ UNCHANGED <<mem_queue, mem_now, disk>>

\* Lines 357-358: nothing is queued.
SkipNothing(h, r) ==
    /\ hs' = [hs EXCEPT ![h] = [r EXCEPT !.outcome = "NothingToSkip"]]
    /\ UNCHANGED <<mem_queue, mem_now, disk>>

\* SkipLast that returns without leaving the call.
SkipLastNoLeave(h, c, r) ==
    /\ mem_now' = [mem_now EXCEPT ![c] = None]
    /\ hs' = [hs EXCEPT ![h] = [r EXCEPT !.outcome = "StoppedQueueEmpty"]]

\* SkipLast that forgets to unset now-playing.
SkipLastKeepsNow(h, c, r) ==
    /\ mem_now' = mem_now
    /\ hs' = [hs EXCEPT ![h] = [r EXCEPT !.pc = "leave"]]

\* Lines 363-366: the popped entry was the last one.
SkipLast(h, c, r) ==
    /\ mem_now' = [mem_now EXCEPT ![c] = None]
    /\ hs' = [hs EXCEPT ![h] = [r EXCEPT !.pc = "leave"]]

\* SkipNext that plays the last entry of the queue instead of its head.
SkipNextPlaysLast(h, c, r, q) ==
    /\ mem_now' = [mem_now EXCEPT ![c] = q[Len(q)]]
    /\ hs' = [hs EXCEPT ![h] = [r EXCEPT !.file_path = q[Len(q)], !.soc = 1, !.pc = "change"]]

\* Lines 371-372 and play_next (230, 239-241) up to its first suspension.
SkipNext(h, c, r, q) ==
    /\ mem_now' = [mem_now EXCEPT ![c] = q[1]]
    /\ hs' = [hs EXCEPT ![h] = [r EXCEPT !.file_path = q[1], !.soc = 1, !.pc = "change"]]

\* Lines 353-372: the first block of cmd_skip.
SkipStart(h, c) ==
    /\ Free(h)
    /\ LET r == NewHandler("skip", c) IN
       IF ~IsGroupChat(c)
       THEN /\ hs' = [hs EXCEPT ![h] = [r EXCEPT !.outcome = "NotAGroupContext"]]
            /\ UNCHANGED <<mem_queue, mem_now, disk>>
       ELSE IF mem_queue[c] = <<>>
       THEN SkipNothing(h, r)
       ELSE LET cur == Head(mem_queue[c])
                q == Tail(mem_queue[c])
            IN /\ mem_queue' = [mem_queue EXCEPT ![c] = q]
               /\ disk' = Remove(disk, cur)
               /\ IF q = <<>> THEN SkipLast(h, c, r) ELSE SkipNext(h, c, r, q)
    /\ stopSeen' = stopSeen \ {h}
    /\ UNCHANGED <<ASSISTANT_ID, callState, callSource, lifecycle>>

\* ---------------------------------------------------------------- cmd_stop
\* StopStart that returns early when nothing is queued.
StopStartEarlyReturn(h, c) ==
    /\ Free(h)
    /\ LET r == NewHandler("stop", c) IN
       IF ~IsGroupChat(c)
       THEN /\ hs' = [hs EXCEPT ![h] = [r EXCEPT !.outcome = "NotAGroupContext"]]
            /\ UNCHANGED <<mem_queue, mem_now, disk>>
       ELSE /\ disk' = RemoveAll(disk, mem_queue[c])
            /\ mem_queue' = [mem_queue EXCEPT ![c] = <<>>]
            /\ mem_now' = [mem_now EXCEPT ![c] = None]
            /\ hs' = [hs EXCEPT ![h] =
                         IF mem_queue[c] = <<>>
                         THEN [r EXCEPT !.outcome = "StoppedCleared"]
                         ELSE [r EXCEPT !.pc = "leave"]]
    /\ stopSeen' = (stopSeen \ {h}) \cup (IF IsGroupChat(c) THEN Resolving(c) ELSE {})
    /\ UNCHANGED <<ASSISTANT_ID, callState, callSource, lifecycle>>

\* StopStart that also cancels the /play requests of the group that are
\* still resolving.
StopStartCancelsPlays(h, c) ==
    /\ Free(h)
    /\ LET r == NewHandler("stop", c) IN
       IF ~IsGroupChat(c)
       THEN /\ hs' = [hs EXCEPT ![h] = [r EXCEPT !.outcome = "NotAGroupContext"]]
            /\ UNCHANGED <<mem_queue, mem_now, disk>>
       ELSE /\ disk' = RemoveAll(disk, mem_queue[c])
            /\ mem_queue' = [mem_queue EXCEPT ![c] = <<>>]
            /\ mem_now' = [mem_now EXCEPT ![c] = None]
            /\ hs' = [k \in Hids |->
                         IF k = h THEN [r EXCEPT !.pc = "leave"]
                         ELSE IF k \in Resolving(c)
                         THEN [hs[k] EXCEPT !.pc = "done", !.outcome = "Cancelled"]
                         ELSE hs[k]]
    /\ stopSeen' = (stopSeen \ {h}) \cup (IF IsGroupChat(c) THEN Resolving(c) ELSE {})
    /\ UNCHANGED <<ASSISTANT_ID, callState, callSource, lifecycle>>

\* StopStart that clears the queue and now-playing of every group.
StopStartAllGroups(h, c) ==
    /\ Free(h)
    /\ LET r == NewHandler("stop", c) IN
       IF ~IsGroupChat(c)
       THEN /\ hs' = [hs EXCEPT ![h] = [r EXCEPT !.outcome = "NotAGroupContext"]]
            /\ UNCHANGED <<mem_queue, mem_now, disk>>
       ELSE /\ disk' = SelectSeq(disk, LAMBDA x : \A g \in Groups : x \notin Elems(mem_queue[g]))
            /\ mem_queue' = [g \in Groups |-> <<>>]
            /\ mem_now' = [g \in Groups |-> None]
            /\ hs' = [hs EXCEPT ![h] = [r EXCEPT !.pc = "leave"]]
    /\ stopSeen' = (stopSeen \ {h}) \cup (IF IsGroupChat(c) THEN Resolving(c) ELSE {})
    /\ UNCHANGED <<ASSISTANT_ID, callState, callSource, lifecycle>>

\* Lines 380-388: the first block of cmd_stop.
StopStart(h, c) ==
    /\ Free(h)
    /\ LET r == NewHandler("stop", c) IN
       IF ~IsGroupChat(c)
       THEN /\ hs' = [hs EXCEPT ![h] = [r EXCEPT !.outcome = "NotAGroupContext"]]
            /\ UNCHANGED <<mem_queue, mem_now, disk>>
       ELSE /\ disk' = RemoveAll(disk, mem_queue[c])
            /\ mem_queue' = [mem_queue EXCEPT ![c] = <<>>]
            /\ mem_now' = [mem_now EXCEPT ![c] = None]
            /\ hs' = [hs EXCEPT ![h] = [r EXCEPT !.pc = "leave"]]
    /\ stopSeen' = (stopSeen \ {h}) \cup (IF IsGroupChat(c) THEN Resolving(c) ELSE {})
    /\ UNCHANGED <<ASSISTANT_ID, callState, callSource, lifecycle>>

\* ---------------------------------------------------------------- on_shutdown
\* Lines 486-493, once the server has drained its requests.
ShutdownSweep ==
    /\ lifecycle = "up"
    /\ \A h \in Hids : hs[h].pc = "done"
    /\ disk' = SelectSeq(disk, LAMBDA x : \A g \in Groups : x \notin Elems(mem_queue[g]))
    /\ mem_queue' = [g \in Groups |-> <<>>]
    /\ mem_now' = [g \in Groups |-> None]
    /\ lifecycle' = "swept"
    /\ UNCHANGED <<ASSISTANT_ID, callState, callSource, hs, stopSeen>>

\* Lines 500-503: calls.stop inside try/except.
CallsStop(result) ==
    /\ lifecycle = "swept"
    /\ lifecycle' = "down"
    /\ IF result = "ok"
       THEN /\ callState' = [g \in Groups |-> "Idle"]
            /\ callSource' = [g \in Groups |-> None]
       ELSE UNCHANGED <<callState, callSource>>
    /\ UNCHANGED <<mem_queue, mem_now, ASSISTANT_ID, disk, hs, stopSeen>>

\* The steps of the service when requests come from the chats cs and the
\* resolver produces the files ps.
NextOn(cs, ps) ==
    \/ \E h \in Hids, c \in cs, a \in BOOLEAN, l \in {"member", "raises"},
          r \in Results : PlayStart(h, c, a, l, r)
    \/ \E h \in Hids, r \in {"error", "written", "nothing"}, p \in ps : Download(h, r, p)
    \/ \E h \in Hids, r \in Results : Listing(h, r)
    \/ \E h \in Hids : Enqueue(h)
    \/ \E h \in Hids, r \in Results : ChangeStream(h, r)
    \/ \E h \in Hids, r \in Results : JoinGroupCall(h, r)
    \/ \E h \in Hids, r \in Results : LeaveGroupCall(h, r)
    \/ \E g \in cs \cap Groups : StreamEnd(g)
    \/ \E h \in Hids, c \in cs : SkipStart(h, c)
    \/ \E h \in Hids, c \in cs : StopStart(h, c)
    \/ ShutdownSweep
    \/ \E r \in Results : CallsStop(r)

\* Requests of one group and of a private chat, handled concurrently.
Next == NextOn({"g1", PrivateChat}, Paths)

Spec == Init /\ [][Next]_vars

\* Requests of both groups, handled concurrently: one track, a presence
\* lookup that answers, a resolver that fails or writes the track.
NextGroups ==
    \/ \E h \in Hids, c \in Groups, r \in Results : PlayStart(h, c, TRUE, "member", r)
    \/ \E h \in Hids, r \in {"error", "written"} : Download(h, r, "a.mp3")
    \/ \E h \in Hids : Listing(h, "ok")
    \/ \E h \in Hids : Enqueue(h)
    \/ \E h \in Hids, r \in Results : ChangeStream(h, r)
    \/ \E h \in Hids, r \in Results : JoinGroupCall(h, r)
    \/ \E h \in Hids, r \in Results : LeaveGroupCall(h, r)
    \/ \E g \in Groups : StreamEnd(g)
    \/ \E h \in Hids, c \in Groups : SkipStart(h, c)
    \/ \E h \in Hids, c \in Groups : StopStart(h, c)
    \/ ShutdownSweep
    \/ \E r \in Results : CallsStop(r)

SpecGroups == Init /\ [][NextGroups]_vars

\* ---------------------------------------------------------------- properties
\* The calls of one ensure_join_and_play for file f: a change_stream, and a
\* join_group_call after it when the change failed.
IsStartOrChange(ops, f) ==
    /\ Len(ops) \in {1, 2}
    /\ ops[1].op = "change" /\ ops[1].file = f
    /\ Len(ops) = 2 => ~ops[1].ok /\ ops[2].op = "join" /\ ops[2].file = f

\* Handler h took this step.
Stepped(h) == hs'[h] # hs[h]

\* This step is the first block of a request of kind k for group c in task h.
Begins(h, k, c) == hs[h].pc = "done" /\ Stepped(h) /\ hs'[h].kind = k /\ hs'[h].chat = c

\* No handler of group g is between two of its steps.
Quiet(g) == \A h \in Hids : hs[h].chat = g => hs[h].pc = "done"

\* C1: a /play request consults the presence gate before it resolves: a
\* request that is resolving or has resolved passed the gate, and a request
\* the gate rejected ends at once, having called neither the resolver nor
\* the call session, with the queue, the now-playing slot, the files and
\* the call untouched by its step.
C1_GateBeforeResolver ==
    /\ [](\A h \in Hids :
            /\ (hs[h].kind = "play" /\ (hs[h].resolves > 0 \/ hs[h].pc # "done"))
                  => hs[h].gate
            /\ hs[h].outcome = "AssistantNotPresent"
                  => /\ hs[h].pc = "done" /\ ~hs[h].gate
                     /\ hs[h].resolves = 0 /\ hs[h].ops = <<>>)
    /\ [][\A h \in Hids :
            (Stepped(h) /\ hs'[h].outcome = "AssistantNotPresent")
               => UNCHANGED <<mem_queue, mem_now, disk, callState, callSource>>]_vars

\* The only request in flight was rejected (the lookup raised) in a group
\* that has a queue and a running call.
C1_Witness ==
    /\ hs[2] = NoHandler
    /\ hs[1].outcome = "AssistantNotPresent"
    /\ ASSISTANT_ID # None
    /\ mem_queue[hs[1].chat] # <<>>
    /\ callState[hs[1].chat] = "Streaming"

\* C2: the append of a /play onto an empty queue makes the file the
\* now-playing one and starts exactly one ensure_join_and_play for it (one
\* change_stream, then one join_group_call only if that failed); the
\* append onto a non-empty queue leaves now-playing and the call alone and
\* the request ends "queued" without any call-session call.
C2_EnqueueStartsOnce ==
    /\ [][\A h \in Hids :
            (hs[h].pc = "resolved" /\ Stepped(h)) =>
               LET c == hs[h].chat
                   f == hs[h].file_path
               IN /\ mem_queue'[c] = Append(mem_queue[c], f)
                  /\ IF mem_queue[c] = <<>>
                     THEN /\ mem_now'[c] = f
                          /\ hs'[h].pc = "change" /\ hs'[h].soc = 1
                          /\ hs'[h].file_path = f /\ hs'[h].pos = 1
                     ELSE /\ UNCHANGED <<mem_now, callState, callSource>>
                          /\ hs'[h].pc = "done" /\ hs'[h].outcome = "Queued"
                          /\ hs'[h].soc = 0 /\ hs'[h].ops = <<>>]_vars
    /\ [](\A h \in Hids : hs[h].kind = "play" =>
            /\ hs[h].soc = (IF hs[h].pos = 1 THEN 1 ELSE 0)
            /\ hs[h].pos # 1 => hs[h].ops = <<>>
            /\ (hs[h].pos = 1 /\ hs[h].pc = "done")
                  => IsStartOrChange(hs[h].ops, hs[h].file_path)
            /\ (hs[h].pos = 1 /\ hs[h].pc = "change") => hs[h].ops = <<>>
            /\ (hs[h].pos = 1 /\ hs[h].pc = "join")
                  => hs[h].ops = <<Op("change", hs[h].file_path, FALSE)>>)

\* Requests handled one after the other: the first played its file as the
\* only item, the latest was queued behind it while the call streams.
C2_Witness ==
    /\ hs[2] = NoHandler
    /\ hs[1].kind = "play" /\ hs[1].outcome = "Queued" /\ hs[1].pos = 2
    /\ mem_now[hs[1].chat] = mem_queue[hs[1].chat][1]
    /\ callState[hs[1].chat] = "Streaming"
    /\ callSource[hs[1].chat] = mem_now[hs[1].chat]

\* C3: between requests, a group's now-playing slot is set exactly when its
\* call is streaming.
C3_CurrentIffStreaming ==
    \A g \in Groups : Quiet(g) => (mem_now[g] # None <=> callState[g] = "Streaming")

\* C4: while a /play of a group is between its append and the end of its
\* change_stream / join_group_call, no /skip or /stop of that group takes a
\* step.
C4_PlayNotInterleaved ==
    [][\A h, k \in Hids :
         (/\ hs[h].kind = "play" /\ hs[h].pc \in {"change", "join"}
          /\ hs'[k].kind \in {"skip", "stop"} /\ hs'[k].chat = hs[h].chat)
            => ~Stepped(k)]_vars

\* C5: the first block of a /stop of a group deletes the file of every
\* queue entry, leaves the queue empty and now-playing unset and goes on to
\* leave_group_call, whatever the state before; the request ends "stopped and
\* cleared" having made exactly one call, a leave, whether or not it raised.
C5_StopClearsAndLeavesOnce ==
    /\ [][\A h \in Hids, g \in Groups :
            Begins(h, "stop", g) =>
               /\ mem_queue'[g] = <<>> /\ mem_now'[g] = None
               /\ Elems(mem_queue[g]) \cap Elems(disk') = {}
               /\ hs'[h].pc = "leave" /\ hs'[h].ops = <<>>
               /\ UNCHANGED <<callState, callSource>>]_vars
    /\ [](\A h \in Hids : (hs[h].kind = "stop" /\ hs[h].chat \in Groups) =>
            /\ hs[h].pc \in {"leave", "done"}
            /\ hs[h].pc = "leave" => hs[h].ops = <<>>
            /\ hs[h].pc = "done" =>
                 /\ Len(hs[h].ops) = 1 /\ hs[h].ops[1].op = "leave"
                 /\ hs[h].outcome = "StoppedCleared")

\* Requests handled one after the other, the latest a /stop of a group
\* that was streaming its queue: the queue is cleared, its files are gone
\* and the leave is about to be made.
C5_Witness ==
    /\ hs[2] = NoHandler
    /\ hs[1].kind = "stop" /\ hs[1].pc = "leave" /\ hs[1].chat \in Groups
    /\ callState[hs[1].chat] = "Streaming"
    /\ mem_queue[hs[1].chat] = <<>> /\ mem_now[hs[1].chat] = None
    /\ disk = <<>>

\* C6: the first block of a /skip of a group with two or more queue entries
\* deletes the head's file, drops the head, makes the second entry the
\* now-playing one and starts one ensure_join_and_play for it; the request
\* makes one change_stream for that entry, one join_group_call for it only
\* if the change failed, and no leave.
C6_SkipPromotesSecond ==
    /\ [][\A h \in Hids, g \in Groups :
            (Begins(h, "skip", g) /\ Len(mem_queue[g]) >= 2) =>
               /\ mem_queue'[g] = Tail(mem_queue[g])
               /\ mem_now'[g] = mem_queue[g][2]
               /\ Head(mem_queue[g]) \notin Elems(disk')
               /\ hs'[h].pc = "change" /\ hs'[h].soc = 1 /\ hs'[h].ops = <<>>
               /\ hs'[h].file_path = mem_queue[g][2]
               /\ UNCHANGED <<callState, callSource>>]_vars
    /\ [](\A h \in Hids : (hs[h].kind = "skip" /\ hs[h].soc = 1) =>
            /\ hs[h].pc \in {"change", "join", "done"}
            /\ hs[h].pc = "change" => hs[h].ops = <<>>
            /\ hs[h].pc = "join" => hs[h].ops = <<Op("change", hs[h].file_path, FALSE)>>
            /\ hs[h].pc = "done" => IsStartOrChange(hs[h].ops, hs[h].file_path))

\* Requests handled one after the other, the latest a /skip that promoted
\* b.mp3 over a.mp3 with a successful change_stream.
C6_Witness ==
    /\ hs[2] = NoHandler
    /\ hs[1].kind = "skip" /\ hs[1].outcome = "Skipped"
    /\ hs[1].ops = <<Op("change", "b.mp3", TRUE)>>
    /\ mem_queue[hs[1].chat] = <<"b.mp3">> /\ mem_now[hs[1].chat] = "b.mp3"
    /\ callSource[hs[1].chat] = "b.mp3"
    /\ disk = <<"b.mp3">>

\* C7: the first block of a /skip of a group with exactly one queue entry
\* leaves the queue empty and now-playing unset and goes on to
\* leave_group_call; the request makes exactly one call, a leave, and no
\* change_stream or join_group_call.
C7_SkipLastLeaves ==
    /\ [][\A h \in Hids, g \in Groups :
            (Begins(h, "skip", g) /\ Len(mem_queue[g]) = 1) =>
               /\ mem_queue'[g] = <<>> /\ mem_now'[g] = None
               /\ hs'[h].pc = "leave" /\ hs'[h].soc = 0 /\ hs'[h].ops = <<>>
               /\ UNCHANGED <<callState, callSource>>]_vars
    /\ [](\A h \in Hids : (hs[h].kind = "skip" /\ hs[h].outcome = "StoppedQueueEmpty") =>
            /\ hs[h].pc = "done" /\ hs[h].soc = 0
            /\ Len(hs[h].ops) = 1 /\ hs[h].ops[1].op = "leave")
    /\ [](\A h \in Hids : (hs[h].kind = "skip" /\ hs[h].pc = "leave") =>
            hs[h].soc = 0 /\ hs[h].ops = <<>>)

\* Requests handled one after the other, the latest a /skip of the only
\* entry of a streaming group: the call was left.
C7_Witness ==
    /\ hs[2] = NoHandler
    /\ hs[1].kind = "skip" /\ hs[1].outcome = "StoppedQueueEmpty"
    /\ hs[1].ops = <<Op("leave", None, TRUE)>>
    /\ mem_queue[hs[1].chat] = <<>> /\ mem_now[hs[1].chat] = None
    /\ callState[hs[1].chat] = "Idle"

\* C8: a /skip of a group whose queue is empty ends at once with "nothing
\* to skip": its step changes neither the queue nor now-playing, deletes no
\* file and makes no call-session call.
C8_SkipEmptyNoOp ==
    /\ [][\A h \in Hids, g \in Groups :
            (Begins(h, "skip", g) /\ mem_queue[g] = <<>>) =>
               /\ hs'[h].pc = "done" /\ hs'[h].outcome = "NothingToSkip"
               /\ hs'[h].ops = <<>> /\ hs'[h].soc = 0
               /\ UNCHANGED <<mem_queue, mem_now, disk, callState, callSource>>]_vars
    /\ [](\A h \in Hids : hs[h].outcome = "NothingToSkip" =>
            hs[h].pc = "done" /\ hs[h].ops = <<>> /\ hs[h].soc = 0)

\* Requests handled one after the other, the latest a /skip of an empty
\* queue while the call still streams (an earlier leave failed).
C8_Witness ==
    /\ hs[2] = NoHandler
    /\ hs[1].outcome = "NothingToSkip"
    /\ mem_queue[hs[1].chat] = <<>> /\ mem_now[hs[1].chat] = None
    /\ callState[hs[1].chat] = "Streaming"

\* C9: a /play whose resolver raised (yt-dlp failed, or no mp3 was
\* produced) ends with that error without having appended, started
\* playback or called the call session, and none of its steps changed the
\* queue, now-playing or the call.
C9_ResolveFailureLeavesQueue ==
    /\ [](\A h \in Hids : hs[h].outcome \in {"ResolutionFailed", "NotFound"} =>
            /\ hs[h].kind = "play" /\ hs[h].pc = "done" /\ hs[h].resolves = 1
            /\ hs[h].pos = 0 /\ hs[h].soc = 0 /\ hs[h].ops = <<>>)
    /\ [][\A h \in Hids :
            (Stepped(h) /\ hs'[h].kind = "play" /\ hs'[h].pos = 0)
               => UNCHANGED <<mem_queue, mem_now, callState, callSource>>]_vars

\* Requests handled one after the other, the latest a /play whose download
\* failed in a group with a queue and a streaming call.
C9_Witness ==
    /\ hs[2] = NoHandler
    /\ hs[1].outcome = "ResolutionFailed"
    /\ Len(mem_queue[hs[1].chat]) = 1
    /\ mem_now[hs[1].chat] = mem_queue[hs[1].chat][1]
    /\ callState[hs[1].chat] = "Streaming"

\* C10: no file path occurs twice in a group's queue.
C10_NoDuplicatePaths ==
    \A g \in Groups : \A i, j \in 1..Len(mem_queue[g]) :
        mem_queue[g][i] = mem_queue[g][j] => i = j

\* C11: a step deletes a file only once its owner has released it: the
\* file a step removes from /tmp/tg_music is not the one a call streams when
\* the step is taken, and no queue of any group names it after the step.
C11_DeleteAfterRelease ==
    [][\A f \in Elems(disk) \ Elems(disk') : \A g \in Groups :
         /\ ~(callState[g] = "Streaming" /\ callSource[g] = f)
         /\ f \notin Elems(mem_queue'[g])]_vars

\* C12: when the join_group_call of an ensure_join_and_play raises, for the
\* first entry of a /play or for the entry a /skip promoted, the request ends
\* there with the join failure (not a resolver failure): the failing step
\* changes neither queue nor now-playing, no further call is made, and with
\* requests handled one after the other the entry is still now-playing and
\* still at the head of the queue.
C12_FailureKeepsCurrent ==
    /\ [][\A h \in Hids :
            (hs[h].pc = "join" /\ Stepped(h) /\ ~hs'[h].ops[Len(hs'[h].ops)].ok) =>
               /\ UNCHANGED <<mem_queue, mem_now, disk, callState, callSource>>
               /\ hs'[h].pc = "done"
               /\ hs'[h].outcome = Played(hs[h].kind, FALSE)]_vars
    /\ [](\A h \in Hids : hs[h].outcome \in {"CallJoinFailed", "NextPlayFailed"} =>
            /\ hs[h].pc = "done" /\ hs[h].soc = 1
            /\ hs[h].kind = (IF hs[h].outcome = "CallJoinFailed" THEN "play" ELSE "skip")
            /\ hs[h].ops = <<Op("change", hs[h].file_path, FALSE),
                             Op("join", hs[h].file_path, FALSE)>>)
    /\ [](\A h \in Hids :
            (/\ hs[h].outcome \in {"CallJoinFailed", "NextPlayFailed"}
             /\ lifecycle = "up"
             /\ \A k \in Hids \ {h} : hs[k] = NoHandler) =>
               /\ mem_now[hs[h].chat] = hs[h].file_path
               /\ mem_queue[hs[h].chat] # <<>>
               /\ Head(mem_queue[hs[h].chat]) = hs[h].file_path)

\* Requests handled one after the other, the latest a /skip that promoted
\* b.mp3 and could neither change the stream nor join: b.mp3 stays
\* now-playing at the head of the queue while nothing streams.
C12_Witness ==
    /\ hs[2] = NoHandler
    /\ hs[1].kind = "skip" /\ hs[1].outcome = "NextPlayFailed"
    /\ mem_queue[hs[1].chat] = <<"b.mp3">> /\ mem_now[hs[1].chat] = "b.mp3"
    /\ callState[hs[1].chat] = "Idle"

\* C13 as stated: a /play that was resolving when a /stop of its group ran
\* is, once appended, the only entry of the queue, is now-playing and has
\* started one ensure_join_and_play.
C13_EnqueuedAlone ==
    \A h \in stopSeen :
        hs[h].pos > 0 => (hs[h].pos = 1 /\ hs[h].soc = 1)

\* C13: a /stop that runs while a /play of its group is resolving clears the
\* queue and leaves that request as it is; the request goes on to append its
\* file to the queue as it then finds it, and when the queue is still empty
\* (no other /play of the group was appended since the /stop) the file is
\* the only entry, becomes now-playing and one ensure_join_and_play is
\* started for it.
C13_StopDoesNotCancel ==
    /\ [][\A h, k \in Hids, g \in Groups :
            (h \in Resolving(g) /\ Begins(k, "stop", g)) =>
               /\ hs'[h] = hs[h]
               /\ mem_queue'[g] = <<>>
               /\ h \in stopSeen']_vars
    /\ [][\A h \in stopSeen :
            (hs[h].pc = "resolved" /\ Stepped(h)) =>
               LET c == hs[h].chat
                   f == hs[h].file_path
               IN /\ mem_queue'[c] = Append(mem_queue[c], f)
                  /\ mem_queue[c] = <<>> =>
                        /\ mem_queue'[c] = <<f>> /\ mem_now'[c] = f
                        /\ hs'[h].pc = "change" /\ hs'[h].soc = 1
                        /\ hs'[h].pos = 1 /\ hs'[h].ops = <<>>]_vars
    /\ [](\A h \in stopSeen :
            /\ hs[h].kind = "play" /\ hs[h].gate
            /\ hs[h].outcome # "Cancelled"
            /\ (hs[h].pos = 1 /\ hs[h].pc = "done")
                  => IsStartOrChange(hs[h].ops, hs[h].file_path))

\* A /play was resolving while a /stop cleared the streaming group and left
\* the call; the /play then appended its file as the only entry and joined.
C13_Witness ==
    /\ 1 \in stopSeen
    /\ hs[1].kind = "play" /\ hs[1].outcome = "Playing" /\ hs[1].pos = 1
    /\ hs[1].ops = <<Op("change", hs[1].file_path, FALSE), Op("join", hs[1].file_path, TRUE)>>
    /\ hs[2].kind = "stop" /\ hs[2].outcome = "StoppedCleared"
    /\ hs[2].ops = <<Op("leave", None, TRUE)>>
    /\ mem_queue[hs[1].chat] = <<hs[1].file_path>>
    /\ mem_now[hs[1].chat] = hs[1].file_path
    /\ callSource[hs[1].chat] = hs[1].file_path

\* C14: the end of the stream of the now-playing entry does what a /skip
\* does after its check: the step in which the stream ends drops the head of
\* the group's queue and makes the next entry now-playing (or none when it
\* was the last), so that the queue advances without a /skip.
C14_EndOfTrackAdvances ==
    [][\A g \in Groups :
         (/\ callState[g] = "Streaming" /\ callSource[g] # None
          /\ callState'[g] = "Streaming" /\ callSource'[g] = None
          /\ mem_queue[g] # <<>>) =>
            /\ mem_queue'[g] = Tail(mem_queue[g])
            /\ mem_now'[g] = (IF Len(mem_queue[g]) >= 2 THEN mem_queue[g][2] ELSE None)]_vars

\* C15: a step of a request of one group, the step of an unexpected fault
\* included, leaves the queue, now-playing and the call of every other group
\* as they are; a request that ends in such a fault has returned, has
\* changed no shared state and leaves the service up, so that later requests
\* of every group are handled.
C15_GroupsIndependent ==
    /\ [][\A h \in Hids, g \in Groups :
            (Stepped(h) /\ hs'[h].chat # g) =>
               /\ mem_queue'[g] = mem_queue[g] /\ mem_now'[g] = mem_now[g]
               /\ callState'[g] = callState[g] /\ callSource'[g] = callSource[g]]_vars
    /\ [][\A h \in Hids :
            (Stepped(h) /\ hs'[h].outcome = "OperationFailed") =>
               /\ hs'[h].pc = "done" /\ lifecycle' = "up"
               /\ UNCHANGED <<mem_queue, mem_now, disk, callState, callSource>>]_vars

\* Requests handled one after the other, the latest a /play of g1 that ended
\* in an unexpected fault while g2 has a queue and streams its head.
C15_Witness ==
    /\ hs[2] = NoHandler
    /\ hs[1].chat = "g1" /\ hs[1].outcome = "OperationFailed"
    /\ mem_queue["g2"] # <<>> /\ mem_now["g2"] = mem_queue["g2"][1]
    /\ callState["g2"] = "Streaming" /\ callSource["g2"] = mem_now["g2"]
    /\ lifecycle = "up"

\* C16: the presence gate fails closed.  A /play whose get_chat_member
\* raised, and every /play with an argument in a group while ASSISTANT_ID is
\* unset (no lookup is made then), was refused by the gate and ended
\* "assistant not present" without resolving, appending or calling the call
\* session; the error of the lookup is not what the request ends with.
C16_GateFailsClosed ==
    \A h \in Hids : hs[h].kind = "play" =>
        /\ hs[h].lookup = "raises" =>
              /\ hs[h].outcome = "AssistantNotPresent" /\ hs[h].pc = "done"
              /\ ~hs[h].gate /\ hs[h].resolves = 0
              /\ hs[h].pos = 0 /\ hs[h].ops = <<>>
        /\ ASSISTANT_ID = None =>
              /\ hs[h].outcome \in {"NotAGroupContext", "Usage", "AssistantNotPresent"}
              /\ hs[h].lookup = "none" /\ hs[h].pc = "done"
              /\ ~hs[h].gate /\ hs[h].resolves = 0
              /\ hs[h].pos = 0 /\ hs[h].ops = <<>>

\* Requests handled one after the other, the latest a /play whose lookup
\* raised although the assistant's id is known and the group is streaming.
C16_Witness ==
    /\ hs[2] = NoHandler
    /\ hs[1].kind = "play" /\ hs[1].lookup = "raises"
    /\ hs[1].outcome = "AssistantNotPresent"
    /\ ASSISTANT_ID # None
    /\ callState[hs[1].chat] = "Streaming"

\* C17: an ensure_join_and_play first calls change_stream for its file,
\* whatever the call's state; it calls join_group_call for the same file
\* exactly when that change_stream raised; it ends in success when either
\* call succeeded, and in failure only when both raised, the failure being
\* that of the join, the last call made.
C17_ChangeThenJoin ==
    /\ [][\A h \in Hids :
            (Stepped(h) /\ hs'[h].soc = 1 /\ hs[h].pc \in {"done", "resolved"})
               => hs'[h].pc = "change" /\ hs'[h].ops = <<>>]_vars
    /\ [][\A h \in Hids :
            (Stepped(h) /\ hs[h].pc = "change") =>
               /\ Len(hs'[h].ops) = 1 /\ hs'[h].ops[1].op = "change"
               /\ hs'[h].ops[1].file = hs[h].file_path
               /\ IF hs'[h].ops[1].ok
                  THEN hs'[h].pc = "done" /\ hs'[h].outcome = Played(hs[h].kind, TRUE)
                  ELSE hs'[h].pc = "join" /\ hs'[h].outcome = "pending"]_vars
    /\ [][\A h \in Hids :
            (Stepped(h) /\ hs[h].pc = "join") =>
               /\ hs'[h].ops = Append(hs[h].ops, hs'[h].ops[2])
               /\ hs'[h].ops[2].op = "join" /\ hs'[h].ops[2].file = hs[h].file_path
               /\ hs'[h].pc = "done"
               /\ hs'[h].outcome = Played(hs[h].kind, hs'[h].ops[2].ok)]_vars
    /\ [](\A h \in Hids : hs[h].pc = "join" =>
            hs[h].soc = 1 /\ hs[h].ops = <<Op("change", hs[h].file_path, FALSE)>>)
    /\ [](\A h \in Hids : (hs[h].soc = 1 /\ hs[h].pc = "done") =>
            /\ IsStartOrChange(hs[h].ops, hs[h].file_path)
            /\ Len(hs[h].ops) = 2 <=> ~hs[h].ops[1].ok
            /\ hs[h].outcome = Played(hs[h].kind, hs[h].ops[Len(hs[h].ops)].ok))

\* Requests handled one after the other, the latest a /play into an empty
\* queue while no call was joined: the change_stream raised and the
\* join_group_call that followed succeeded.
C17_Witness ==
    /\ hs[2] = NoHandler
    /\ hs[1].kind = "play" /\ hs[1].outcome = "Playing"
    /\ hs[1].ops = <<Op("change", hs[1].file_path, FALSE), Op("join", hs[1].file_path, TRUE)>>
    /\ callState[hs[1].chat] = "Streaming"
    /\ callSource[hs[1].chat] = hs[1].file_path

\* C18: at every point where handlers can interleave (no handler is ever
\* suspended between its change of a queue and its update of now-playing),
\* a group's now-playing is unset exactly when its queue is empty and is
\* otherwise the head of the queue, whether or not the call was joined.
C18_NowIsQueueHead ==
    \A g \in Groups :
        mem_now[g] = (IF mem_queue[g] = <<>> THEN None ELSE mem_queue[g][1])

\* Requests handled one after the other, the latest a /play into an empty
\* queue whose join failed: its file is now-playing and heads the queue
\* while the call is idle.
C18_Witness ==
    /\ hs[2] = NoHandler
    /\ hs[1].kind = "play" /\ hs[1].outcome = "CallJoinFailed"
    /\ mem_queue[hs[1].chat] = <<hs[1].file_path>>
    /\ mem_now[hs[1].chat] = hs[1].file_path
    /\ callState[hs[1].chat] = "Idle"

\* C19: once every handler has returned, a call that streams a file streams
\* the group's now-playing file, and that file has not been deleted.
C19_StreamedIsCurrent ==
    (lifecycle = "up" /\ \A h \in Hids : hs[h].pc = "done") =>
        \A g \in Groups :
            (callState[g] = "Streaming" /\ callSource[g] # None) =>
                /\ callSource[g] = mem_now[g]
                /\ callSource[g] \in Elems(disk)

\* C20: while a group's queue is not empty and no call is joined (a join
\* failed earlier), a /play only appends: it ends "queued" with no
\* change_stream or join_group_call and leaves now-playing and the call
\* alone.  A change_stream / join_group_call is started only by a /skip that
\* leaves entries in the queue or by a /play that found the queue empty, and
\* a non-empty queue becomes empty only in a /stop, in a /skip of its last
\* entry, or in the shutdown sweep.
C20_NoRetryOnPlay ==
    /\ [][\A h \in Hids :
            (/\ hs[h].pc = "resolved" /\ Stepped(h)
             /\ mem_queue[hs[h].chat] # <<>> /\ callState[hs[h].chat] = "Idle") =>
               /\ mem_queue'[hs[h].chat] = Append(mem_queue[hs[h].chat], hs[h].file_path)
               /\ hs'[h].pc = "done" /\ hs'[h].outcome = "Queued"
               /\ hs'[h].soc = 0 /\ hs'[h].ops = <<>>
               /\ UNCHANGED <<mem_now, callState, callSource>>]_vars
    /\ [][\A h \in Hids :
            (Stepped(h) /\ hs'[h].pc = "change") =>
               \/ /\ hs'[h].kind = "skip" /\ hs[h].pc = "done"
                  /\ Len(mem_queue[hs'[h].chat]) >= 2
               \/ /\ hs'[h].kind = "play" /\ hs[h].pc = "resolved"
                  /\ mem_queue[hs'[h].chat] = <<>>]_vars
    /\ [][\A g \in Groups :
            (mem_queue[g] # <<>> /\ mem_queue'[g] = <<>>) =>
               \/ \E h \in Hids : Begins(h, "stop", g)
               \/ \E h \in Hids : Begins(h, "skip", g) /\ Len(mem_queue[g]) = 1
               \/ lifecycle' = "swept"]_vars

\* Requests handled one after the other: the first /play could not join,
\* the latest /play was queued behind it and nothing streams.
C20_Witness ==
    /\ hs[2] = NoHandler
    /\ hs[1].kind = "play" /\ hs[1].outcome = "Queued" /\ hs[1].pos = 2
    /\ hs[1].ops = <<>>
    /\ mem_now[hs[1].chat] = mem_queue[hs[1].chat][1]
    /\ callState[hs[1].chat] = "Idle"
====
